---- MODULE Spec2Model ----
(***************************************************************************)
(* Welch spectral density estimator (welch-sde): the Builder, the          *)
(* segmentation plan it finalizes into a Welch estimator, the windows, the *)
(* periodogram requests and the frequency axis.                            *)
(*                                                                         *)
(* Numbers.  usize values are integers; the only value near the top of the *)
(* usize range the program produces is the saturated cast of +inf, kept as *)
(* USIZE_MAX and never used in arithmetic.  Floating-point values are      *)
(* non-negative values <<num, den, e>> standing for (num/den) * eps^e, in  *)
(* lowest terms, with den = 0 for +inf (num = 1) and NaN (num = 0): exact  *)
(* arithmetic with the IEEE rules for x/0, 0*inf and NaN.  eps is the      *)
(* positive residue sin(pi)^2 of the rounded pi, the one inexact value     *)
(* that does not cancel to a rational (see the windows).  An overlap       *)
(* fraction a = p/q is the pair <<p, q>>; the fractions drawn are dyadic,  *)
(* so every f64 product, sum and truncated quotient of the planner is the  *)
(* exact one at the sizes modelled.                                        *)
(*                                                                         *)
(* Signal.  The signal is a constant signal: its length and its amplitude. *)
(* The discrete Fourier transform is an external collaborator; of each     *)
(* transformed segment the model keeps bin 0, which is the plain sum of    *)
(* the windowed, zero-padded buffer, and the number of bins.               *)
(***************************************************************************)
EXTENDS Integers, Sequences, FiniteSets, TLC

VARIABLES
    phase,            \* "builder" | "built" | "panicked"
    panic_at,         \* the operation that panicked, "" if none
    overflow_checks,  \* build profile: integer overflow panics (TRUE) or wraps
    W,                \* the window type parameter: "Hann" | "One"
    signal,           \* the borrowed signal: [len, amplitude]
    builder,          \* <<Builder>>: the staged configuration; build moves it
                      \* into the estimator and leaves it as it was built
    dft_log2,         \* exponent last given to dft_log2_max_size (12 by default)
    welch,            \* <<Welch>> once built, <<>> before
    sd,               \* <<Periodogram>> of the last spectral-density request
    ps,               \* <<Periodogram>> of the last power-spectrum request
    requests,         \* number of periodogram requests issued
    freq              \* <<frequency vector>> of the last frequency() call

vars == <<phase, panic_at, overflow_checks, W, signal, builder, dft_log2,
          welch, sd, ps, requests, freq>>

----------------------------------------------------------------------------
(* Bounds of the model *)

MaxLen == 12
MaxSeg == 5
MaxLog2 == 3
MaxRequests == 2
MaxDefaultLen == 12300

(* Program constants *)

DefaultNSegment == 4
DefaultDftMaxSize == 4096
DefaultLog2 == 12
USIZE_MAX == 2147483647

DefaultOverlap == <<1, 2>>

\* overlap fractions a = p/q given to Builder::overlap
Overlaps == {<<0, 1>>, <<1, 4>>, <<1, 2>>, <<3, 4>>, <<1, 1>>}
\* sampling frequencies given to Builder::sampling_frequency
Frequencies == {<<0, 1, 0>>, <<2, 1, 0>>}
Amplitudes == {1, 2}
Windows == {"Hann", "One"}

----------------------------------------------------------------------------
(* Floating-point values *)

NaN == <<0, 0, 0>>
Inf == <<1, 0, 0>>
TZero == <<0, 1, 0>>
TOne == <<1, 1, 0>>
Half == <<1, 2, 0>>

RECURSIVE GCD(_, _)
GCD(x, y) == IF y = 0 THEN x ELSE GCD(y, x % y)

Norm(p, q, e) ==
    IF q = 0 THEN (IF p = 0 THEN NaN ELSE Inf)
    ELSE IF p = 0 THEN TZero
    ELSE LET g == GCD(p, q) IN <<p \div g, q \div g, e>>

\* T::from_usize
FromUsize(i) == <<i, 1, 0>>
\* x * y
RMul(x, y) ==
    IF x = NaN \/ y = NaN THEN NaN ELSE Norm(x[1] * y[1], x[2] * y[2], x[3] + y[3])
\* x.recip()
Recip(x) == Norm(x[2], x[1], 0 - x[3])
\* x / y
RDiv(x, y) == IF x = NaN \/ y = NaN THEN NaN ELSE RMul(x, Recip(y))
\* x < y, for values without an eps factor
RLess(x, y) ==
    /\ x # NaN /\ y # NaN /\ x # Inf
    /\ (y = Inf \/ x[1] * y[2] < y[1] * x[2])

----------------------------------------------------------------------------
(* Segmentation planner arithmetic *)

\* wrong: rounds the quotient up instead of truncating
SegLenCeil(n, k, a) ==
    LET den == k * (a[2] - a[1]) + a[1]
    IN  IF den = 0 THEN (IF n = 0 THEN 0 ELSE USIZE_MAX)
        ELSE (n * a[2] + den - 1) \div den

\* (n as f64 / (k as f64 * (1. - a) + a)).trunc() as usize
SegLen(n, k, a) ==
    LET den == k * (a[2] - a[1]) + a[1]
    IN  IF den = 0 THEN (IF n = 0 THEN 0 ELSE USIZE_MAX)
        ELSE (n * a[2]) \div den

RECURSIVE PowerOfTwoFrom(_, _)
PowerOfTwoFrom(l, m) == IF m >= l THEN m ELSE PowerOfTwoFrom(l, 2 * m)

\* usize::next_power_of_two, for l below the overflow range
NextPowerOfTwo(l) == PowerOfTwoFrom(l, 1)

\* (l as f64 * a).round() as usize: ties round away from zero
RoundOverlap(l, a) == (2 * l * a[1] + a[2]) \div (2 * a[2])

\* wrong: solves n = k*l without the overlap
CapSegmentsNoOverlap(n, l, a) == IF l = 0 THEN USIZE_MAX ELSE n \div l

\* ((n as f64 - l as f64 * a) / (l as f64 * (1. - a))).trunc() as usize
CapSegments(n, l, a) ==
    LET num == n * a[2] - l * a[1]
        den == l * (a[2] - a[1])
    IN  IF den = 0 THEN (IF num > 0 THEN USIZE_MAX ELSE 0)
        ELSE IF num < 0 THEN 0
        ELSE num \div den

RECURSIVE Pow2(_)
Pow2(p) == IF p = 0 THEN 1 ELSE 2 * Pow2(p - 1)

\* 2 << s for an in-range shift amount s
Shl2(s) == 2 * Pow2(s)

----------------------------------------------------------------------------
(* Windows: the reductions of the weights.  The Hann weights are           *)
(* sin(pi*i/(l-1))^2 for i = 0..l-1.  For l >= 3 their sum is (l-1)/2 and  *)
(* the sum of their squares is 3(l-1)/8 (1 for l = 3).  For l = 2 the      *)
(* weights are sin(0)^2 = 0 and sin(pi)^2 = eps.  For l = 1 the only       *)
(* weight is sin(0/0)^2 = NaN.  For l = 0 there is no weight.              *)

\* W::new(l)
Window(kind, l) == [kind |-> kind, len |-> l]

\* the sum of the weights
WeightsSum(w) ==
    IF w.kind = "One" THEN FromUsize(w.len)
    ELSE IF w.len = 0 THEN TZero
    ELSE IF w.len = 1 THEN NaN
    ELSE IF w.len = 2 THEN <<1, 1, 1>>
    ELSE Norm(w.len - 1, 2, 0)

\* Window::sqr_sum: the sum of the squared weights
SqrSum(w) ==
    IF w.kind = "One" THEN FromUsize(w.len)
    ELSE IF w.len = 0 THEN TZero
    ELSE IF w.len = 1 THEN NaN
    ELSE IF w.len = 2 THEN <<1, 1, 2>>
    ELSE IF w.len = 3 THEN TOne
    ELSE Norm(3 * (w.len - 1), 8, 0)

\* Window::sum_sqr: the square of the weights sum
SumSqr(w) ==
    IF w.kind = "One" THEN RMul(SqrSum(w), SqrSum(w))
    ELSE RMul(WeightsSum(w), WeightsSum(w))

----------------------------------------------------------------------------
(* Builder *)

B == builder[1]

\* Builder::new
NewBuilder(n) ==
    [n_segment    |-> DefaultNSegment,
     segment_size |-> SegLen(n, DefaultNSegment, DefaultOverlap),
     overlap      |-> DefaultOverlap,
     dft_max_size |-> DefaultDftMaxSize,
     fs           |-> <<>>]

Start(lens, amps) ==
    /\ phase = "builder"
    /\ panic_at = ""
    /\ overflow_checks \in BOOLEAN
    /\ W \in Windows
    /\ signal \in [len : lens, amplitude : amps]
    /\ builder = <<NewBuilder(signal.len)>>
    /\ dft_log2 = DefaultLog2
    /\ welch = <<>>
    /\ sd = <<>>
    /\ ps = <<>>
    /\ requests = 0
    /\ freq = <<>>

Init == Start(0..MaxLen, Amplitudes)

Panic(op) ==
    /\ phase' = "panicked"
    /\ panic_at' = op

\* Builder::sampling_frequency
SamplingFrequency(fs) ==
    /\ phase = "builder"
    /\ builder' = <<[B EXCEPT !.fs = <<fs>>]>>
    /\ UNCHANGED <<phase, panic_at, overflow_checks, W, signal, dft_log2,
                   welch, sd, ps, requests, freq>>

\* wrong: stores the fraction and keeps the stale segment size
OverlapStale(a) ==
    /\ phase = "builder"
    /\ builder' = <<[B EXCEPT !.overlap = a]>>
    /\ UNCHANGED <<phase, panic_at, overflow_checks, W, signal, dft_log2,
                   welch, sd, ps, requests, freq>>

\* Builder::overlap
Overlap(a) ==
    /\ phase = "builder"
    /\ builder' = <<[B EXCEPT !.segment_size = SegLen(signal.len, B.n_segment, a),
                              !.overlap = a]>>
    /\ UNCHANGED <<phase, panic_at, overflow_checks, W, signal, dft_log2,
                   welch, sd, ps, requests, freq>>

\* Builder::n_segment
NSegment(k) ==
    /\ phase = "builder"
    /\ builder' = <<[B EXCEPT !.n_segment = k,
                              !.segment_size = SegLen(signal.len, k, B.overlap)]>>
    /\ UNCHANGED <<phase, panic_at, overflow_checks, W, signal, dft_log2,
                   welch, sd, ps, requests, freq>>

\* Builder::dft_log2_max_size: 2 << (p - 1).  For p = 0 the subtraction
\* overflows: a panic with overflow checks, else p - 1 wraps to usize::MAX,
\* the shift amount is masked to 63 and 2 << 63 is 0.
DftLog2MaxSize(p) ==
    /\ phase = "builder"
    /\ dft_log2' = p
    /\ IF p = 0 /\ overflow_checks
       THEN /\ Panic("dft_log2_max_size")
            /\ UNCHANGED builder
       ELSE /\ builder' = <<[B EXCEPT !.dft_max_size =
                                IF p = 0 THEN 0 ELSE Shl2(p - 1)]>>
            /\ UNCHANGED <<phase, panic_at>>
    /\ UNCHANGED <<overflow_checks, W, signal, welch, sd, ps, requests, freq>>

\* wrong: never clamps the segment to the maximum transform size
PlanUncapped(b, n) ==
    [n_segment    |-> b.n_segment,
     segment_size |-> b.segment_size,
     dft_size     |-> NextPowerOfTwo(b.segment_size),
     overlap_idx  |-> b.segment_size - RoundOverlap(b.segment_size, b.overlap)]

\* The plan Builder::build derives: k, l, m and the stride d.
Plan(b, n) ==
    LET l0  == b.segment_size
        m0  == NextPowerOfTwo(l0)
        cap == m0 > b.dft_max_size
        l   == IF cap THEN b.dft_max_size ELSE l0
        k   == IF cap THEN CapSegments(n, l, b.overlap) ELSE b.n_segment
        m   == IF cap THEN l ELSE m0
    IN  [n_segment    |-> k,
         segment_size |-> l,
         dft_size     |-> m,
         overlap_idx  |-> l - RoundOverlap(l, b.overlap)]

\* Builder::build.  A staged segment size of usize::MAX never builds:
\* next_power_of_two overflows (a panic with overflow checks, else 0, which
\* is under any cap) and W::new(usize::MAX) then fails to allocate.
\* Hann::new(0) computes n - 1 on a usize.
Build ==
    /\ phase = "builder"
    /\ IF B.segment_size = USIZE_MAX
       THEN /\ Panic("build")
            /\ UNCHANGED welch
       ELSE LET p == Plan(B, signal.len)
            IN  IF W = "Hann" /\ p.segment_size = 0 /\ overflow_checks
                THEN /\ Panic("build")
                     /\ UNCHANGED welch
                ELSE /\ phase' = "built"
                     /\ welch' = <<[n_segment    |-> p.n_segment,
                                    segment_size |-> p.segment_size,
                                    dft_size     |-> p.dft_size,
                                    overlap_idx  |-> p.overlap_idx,
                                    fs |-> IF B.fs = <<>> THEN TOne ELSE B.fs[1],
                                    window |-> Window(W, p.segment_size)]>>
                     /\ UNCHANGED panic_at
    /\ UNCHANGED <<overflow_checks, W, signal, builder, dft_log2, sd, ps,
                   requests, freq>>

----------------------------------------------------------------------------
(* Estimator *)

E == welch[1]

\* Welch::windowed_segments: the number of segments
\* signal.windows(l).step_by(d) yields
SegmentCount(w, n) ==
    IF n < w.segment_size THEN 0
    ELSE (n - w.segment_size) \div w.overlap_idx + 1

\* slice::windows panics on size 0 and Iterator::step_by on step 0
SegmentsPanic(w) == w.segment_size = 0 \/ w.overlap_idx = 0

\* Bin 0 of the transform of one windowed segment of the constant signal:
\* the sum of amplitude * weight over the segment, squared (norm_sqr).
SegmentBin0(w, amplitude) ==
    RMul(FromUsize(amplitude * amplitude), SumSqr(w.window))

\* The periodogram scaled with u (Periodogram::new): m/2 bins, of which bin
\* 0 is kept, folded over all extracted segments from a zero accumulator.
PeriodogramOf(w, sig, u) ==
    LET count == SegmentCount(w, sig.len)
        acc0  == IF count = 0 THEN TZero
                 ELSE RMul(FromUsize(count), SegmentBin0(w, sig.amplitude))
    IN  [fs       |-> w.fs,
         len      |-> w.dft_size \div 2,
         bin0     |-> IF w.dft_size \div 2 = 0 THEN <<>> ELSE <<RMul(acc0, u)>>,
         segments |-> count]

\* the scale factor of the spectral density
DensityScale(w) ==
    Recip(RMul(RMul(SqrSum(w.window), FromUsize(w.n_segment)), w.fs))

\* the scale factor of the power spectrum
PowerScale(w) ==
    Recip(RMul(SumSqr(w.window), FromUsize(w.n_segment)))

\* wrong: the request caches the number of segments it found in the estimator
SpectralDensityPeriodogramCaching ==
    /\ phase = "built"
    /\ requests < MaxRequests
    /\ requests' = requests + 1
    /\ IF SegmentsPanic(E)
       THEN /\ Panic("periodogram")
            /\ UNCHANGED <<sd, welch>>
       ELSE /\ sd' = <<PeriodogramOf(E, signal, DensityScale(E))>>
            /\ welch' = <<[E EXCEPT !.n_segment = SegmentCount(E, signal.len)]>>
            /\ UNCHANGED <<phase, panic_at>>
    /\ UNCHANGED <<overflow_checks, W, signal, builder, dft_log2, ps, freq>>

\* SpectralDensityPeriodogram::periodogram for Welch
SpectralDensityPeriodogram ==
    /\ phase = "built"
    /\ requests < MaxRequests
    /\ requests' = requests + 1
    /\ IF SegmentsPanic(E)
       THEN /\ Panic("periodogram")
            /\ UNCHANGED sd
       ELSE /\ sd' = <<PeriodogramOf(E, signal, DensityScale(E))>>
            /\ UNCHANGED <<phase, panic_at>>
    /\ UNCHANGED <<overflow_checks, W, signal, builder, dft_log2, welch, ps, freq>>

\* PowerSpectrumPeriodogram::periodogram for Welch
PowerSpectrumPeriodogram ==
    /\ phase = "built"
    /\ requests < MaxRequests
    /\ requests' = requests + 1
    /\ IF SegmentsPanic(E)
       THEN /\ Panic("periodogram")
            /\ UNCHANGED ps
       ELSE /\ ps' = <<PeriodogramOf(E, signal, PowerScale(E))>>
            /\ UNCHANGED <<phase, panic_at>>
    /\ UNCHANGED <<overflow_checks, W, signal, builder, dft_log2, welch, sd, freq>>

\* Periodogram::frequency: entry i is i * fs * 0.5 / (n - 1); the closure is
\* not run for n = 0
FrequencyOf(p) ==
    [i \in 1..p.len |->
        RDiv(RMul(RMul(FromUsize(i - 1), p.fs), Half), FromUsize(p.len - 1))]

\* frequency() on a periodogram a request returned
Frequency(p) ==
    /\ phase = "built"
    /\ p # <<>>
    /\ freq' = <<FrequencyOf(p[1])>>
    /\ UNCHANGED <<phase, panic_at, overflow_checks, W, signal, builder,
                   dft_log2, welch, sd, ps, requests>>

----------------------------------------------------------------------------
(* Specifications *)

Next ==
    \/ \E fs \in Frequencies : SamplingFrequency(fs)
    \/ \E a \in Overlaps : Overlap(a)
    \/ \E k \in 0..MaxSeg : NSegment(k)
    \/ \E p \in 0..MaxLog2 : DftLog2MaxSize(p)
    \/ Build
    \/ SpectralDensityPeriodogram
    \/ PowerSpectrumPeriodogram
    \/ Frequency(sd)
    \/ Frequency(ps)

Spec == Init /\ [][Next]_vars

\* Builder::new(signal).build() with every default, for every signal length
\* up to MaxDefaultLen
InitDefault == Start(0..MaxDefaultLen, {1})

NextDefault == Build

SpecDefault == InitDefault /\ [][NextDefault]_vars

----------------------------------------------------------------------------
(* Properties *)

RECURSIVE IsPowerOfTwo(_)
IsPowerOfTwo(m) == m = 1 \/ (m > 1 /\ m % 2 = 0 /\ IsPowerOfTwo(m \div 2))

\* l0 = trunc(n / 2.5), the default plan's first segment length
DefaultL0(n) == (2 * n) \div 5

Built == phase = "built"

\* C1: with every default, the estimator build returns has k segments of
\* length l at stride d inside the signal, (k-1)*d + l <= n, and m is the
\* smallest power of two >= l, unless l0 > 4096, where m = l = 4096.
C1_SegmentationConsistency ==
    Built =>
        /\ (E.n_segment - 1) * E.overlap_idx + E.segment_size <= signal.len
        /\ IF DefaultL0(signal.len) > DefaultDftMaxSize
           THEN E.dft_size = DefaultDftMaxSize /\ E.segment_size = DefaultDftMaxSize
           ELSE /\ IsPowerOfTwo(E.dft_size)
                /\ E.dft_size >= E.segment_size
                /\ (E.dft_size > 1 => E.dft_size \div 2 < E.segment_size)

\* C1 witness: a default build in the cap branch with a fifth segment
C1_Witness ==
    /\ Built
    /\ DefaultL0(signal.len) > DefaultDftMaxSize
    /\ E.n_segment = 5
    /\ E.overlap_idx = 2048

\* C2 as stated: with every default, l0 > 4096 gives l = m = 4096 and a
\* recomputed k > 4; l0 <= 4096 keeps k = 4 and l = l0.
C2_CapBoundaryAsStated ==
    Built =>
        IF DefaultL0(signal.len) > DefaultDftMaxSize
        THEN /\ E.segment_size = DefaultDftMaxSize
             /\ E.dft_size = DefaultDftMaxSize
             /\ E.n_segment > DefaultNSegment
        ELSE /\ E.n_segment = DefaultNSegment
             /\ E.segment_size = DefaultL0(signal.len)

\* C2 amended: with every default, l0 > 4096 gives l = m = 4096 and a
\* recomputed k >= 4, with k > 4 exactly from n = 3 * 4096 on; l0 <= 4096
\* keeps k = 4 and l = l0.
C2_CapBoundary ==
    Built =>
        IF DefaultL0(signal.len) > DefaultDftMaxSize
        THEN /\ E.segment_size = DefaultDftMaxSize
             /\ E.dft_size = DefaultDftMaxSize
             /\ E.n_segment >= DefaultNSegment
             /\ (E.n_segment > DefaultNSegment <=> signal.len >= 3 * DefaultDftMaxSize)
        ELSE /\ E.n_segment = DefaultNSegment
             /\ E.segment_size = DefaultL0(signal.len)

\* C2 witness: the first length in the cap branch, where k stays 4
C2_Witness ==
    /\ Built
    /\ DefaultL0(signal.len) = DefaultDftMaxSize + 1
    /\ E.segment_size = DefaultDftMaxSize
    /\ E.n_segment = DefaultNSegment

\* The Hann window has weights that are not all zero or NaN
RegularHann == W = "Hann" /\ E.segment_size >= 3

\* C3, for unit amplitude and a positive sampling frequency: the DC bin of
\* the spectral density of a constant signal satisfies
\* sqr_sum = sum_sqr / (fs * ps[0]).
C3_ConstantSignalDC ==
    (Built /\ RegularHann /\ signal.amplitude = 1 /\ sd # <<>> /\ RLess(TZero, E.fs)) =>
        SqrSum(E.window) = RDiv(SumSqr(E.window), RMul(E.fs, sd[1].bin0[1]))

\* trunc(n / (k*(1-a) + a)) as a value: l*D <= n < (l+1)*D for the
\* denominator D > 0 (scaled by the fraction's denominator); the cast of
\* n/0 for D = 0
IsTruncatedLength(l, n, k, a) ==
    LET D == k * (a[2] - a[1]) + a[1]
    IN  IF D = 0 THEN l = (IF n = 0 THEN 0 ELSE USIZE_MAX)
        ELSE l * D <= n * a[2] /\ n * a[2] < (l + 1) * D

\* C4: after any sequence of setter calls the staged segment_size is
\* trunc(n / (k*(1-a) + a)) for the staged k and a, and a call that changes
\* the sampling frequency or the maximum transform size leaves n_segment,
\* overlap and segment_size as they were.
C4_StagedPlanConsistent ==
    /\ [](phase = "builder" =>
            IsTruncatedLength(B.segment_size, signal.len, B.n_segment, B.overlap))
    /\ [][(phase' = "builder" /\ (B'.fs # B.fs \/ B'.dft_max_size # B.dft_max_size)) =>
            /\ B'.n_segment = B.n_segment
            /\ B'.overlap = B.overlap
            /\ B'.segment_size = B.segment_size]_vars

\* C4 witness: every setter has been called, overlap after n_segment
C4_Witness ==
    /\ phase = "builder"
    /\ signal.len = MaxLen
    /\ B.n_segment = 3
    /\ B.overlap = <<3, 4>>
    /\ B.fs = <<<<2, 1, 0>>>>
    /\ B.dft_max_size = 4
    /\ B.segment_size = 8

\* C5: a periodogram request that completes never summed fewer segments
\* than the k it normalizes by (a signal too short for k segments is an
\* error).
C5_ShortSignalIsError ==
    Built =>
        /\ (sd # <<>> => sd[1].segments >= E.n_segment)
        /\ (ps # <<>> => ps[1].segments >= E.n_segment)

\* C6: no failure happens after build: a periodogram request on a built
\* estimator never panics and returns m/2 values.
C6_AllValidationAtBuild ==
    /\ panic_at # "periodogram"
    /\ (sd # <<>> => sd[1].len = E.dft_size \div 2)
    /\ (ps # <<>> => ps[1].len = E.dft_size \div 2)

\* C7: for fs > 0, frequency() returns N = m/2 >= 2 values, entry i being
\* i*fs/(2*(N-1)): from 0 to fs/2, strictly increasing.
C7_FrequencyAxis ==
    (freq # <<>> /\ RLess(TZero, E.fs)) =>
        LET f == freq[1]
            N == Len(f)
        IN  /\ N = E.dft_size \div 2
            /\ N >= 2
            /\ f[1] = TZero
            /\ f[N] = RMul(E.fs, Half)
            /\ \A i \in 1..N : f[i] = Norm((i - 1) * E.fs[1], 2 * (N - 1) * E.fs[2], 0)
            /\ \A i \in 1..(N - 1) : RLess(f[i], f[i + 1])

\* C8: a periodogram request leaves the estimator and the signal as they
\* were, and a repeated request in a mode returns what the first returned.
C8_RequestsIdempotent ==
    [][(Built /\ phase' = "built") =>
            /\ welch' = welch
            /\ signal' = signal
            /\ (sd # <<>> => sd' = sd)
            /\ (ps # <<>> => ps' = ps)]_vars

\* C8 witness: the spectral density requested twice, then read
C8_Witness ==
    /\ Built
    /\ requests = 2
    /\ sd # <<>>
    /\ ps = <<>>
    /\ signal.len = MaxLen

\* C9: dft_log2_max_size(p) stages the maximum transform size 2^p for
\* p >= 1 (4096 = 2^12 when never called) and p = 0 is rejected.
C9_ExponentSetsCap ==
    /\ (dft_log2 = 0 => phase = "panicked" /\ panic_at = "dft_log2_max_size")
    /\ (dft_log2 >= 1 => B.dft_max_size = Pow2(dft_log2))

\* C10: for a requested k0 >= 1 and 0 <= a < 1, a completed request summed
\* exactly the k = n_segment segments its scale factor divides by.
C10_SegmentsSummedIsK ==
    (Built /\ B.n_segment >= 1 /\ B.overlap[1] < B.overlap[2]) =>
        /\ (sd # <<>> => sd[1].segments = E.n_segment)
        /\ (ps # <<>> => ps[1].segments = E.n_segment)

\* the requested segment count and overlap are valid: k0 >= 1, 0 <= a < 1
ValidRequest == B.n_segment >= 1 /\ B.overlap[1] < B.overlap[2]

\* r = round(l * a) as a value: |r - l*a| <= 1/2, scaled by the fraction's
\* denominator
IsRoundedOverlap(r, l, a) ==
    /\ 2 * r * a[2] <= 2 * l * a[1] + a[2]
    /\ 2 * l * a[1] - a[2] <= 2 * r * a[2]

\* C11: for a requested k0 >= 1 and 0 <= a < 1, every estimator build
\* returns has the stride d = l - round(l*a) with 1 <= d <= l, and l >= 1.
C11_StrideWithinSegment ==
    (Built /\ ValidRequest) =>
        /\ IsRoundedOverlap(E.segment_size - E.overlap_idx, E.segment_size, B.overlap)
        /\ 1 <= E.overlap_idx
        /\ E.overlap_idx <= E.segment_size
        /\ E.segment_size >= 1

\* C12: after any setter calls with exponent p >= 1 (or none), every
\* estimator build returns has a power of two m with l <= m <= the maximum
\* transform size; a staged l0 within the maximum is kept and padded to m,
\* a larger one gives m = l = the maximum.
C12_TransformSizeBounded ==
    (Built /\ dft_log2 >= 1) =>
        /\ IsPowerOfTwo(E.dft_size)
        /\ E.segment_size <= E.dft_size
        /\ E.dft_size <= B.dft_max_size
        /\ IF B.segment_size > B.dft_max_size
           THEN E.dft_size = B.dft_max_size /\ E.segment_size = B.dft_max_size
           ELSE E.segment_size = B.segment_size

\* C12 witness: both branches under a lowered maximum: here the capped one,
\* 12 samples in 3 segments of 4 after dft_log2_max_size(2)
C12_Witness ==
    /\ Built
    /\ dft_log2 = 2
    /\ B.segment_size > B.dft_max_size
    /\ E.dft_size = 4
    /\ E.segment_size = 4
    /\ E.n_segment = 3
    /\ E.overlap_idx = 4

\* the cap branch of build is taken: next_power_of_two(l0) exceeds the
\* maximum transform size
CapBranchTaken ==
    B.segment_size # USIZE_MAX /\ NextPowerOfTwo(B.segment_size) > B.dft_max_size

\* C13: for a requested k0 >= 1 and 0 <= a < 1, the segment count the cap
\* branch recomputes is at least k0, hence at least 1.
C13_CapBranchKeepsSegments ==
    (Built /\ ValidRequest /\ CapBranchTaken) =>
        /\ E.n_segment >= B.n_segment
        /\ E.n_segment >= 1

====
